---- MODULE Spec2Model ----
(***************************************************************************)
(* The notebook simulating-desi-spectra.ipynb as a state machine.  One     *)
(* "run" is one Run-All of the notebook: the code cells execute top to     *)
(* bottom and the run stops at the first cell that raises.  The files in   *)
(* the scratch directory outlive a run.  quickspectra, rrdesi and srun are *)
(* external programs: each is a process that is launched by a cell, exits  *)
(* on its own with some exit code, and writes the whole file named on its  *)
(* command line only when it succeeds.                                     *)
(*                                                                         *)
(* Strings that the code inspects (paths, command lines) are sequences of  *)
(* tokens; a path is a sequence such as <<"/", "scratch", "/", "desi">>    *)
(* and a command line is a sequence of words, each word a token sequence.  *)
(* Redshifts are integers in units of 1/1000.                              *)
(***************************************************************************)
EXTENDS Integers, Sequences, FiniteSets, TLC

\* ------------------------------------------------------------------ bounds
\* Number of templates (nmodel=100 in the notebook), wavelength samples, and
\* Run-All executions that share one scratch directory.
NModel == 2
NWave == 2
MaxRuns == 2

\* Seeds of the template generator's and of the simulator's random draws.
Seeds == {1, 2}
NoiseSeeds == {0, 1}

\* ------------------------------------------------------------- environment
ScratchValues == { <<"/", "scratch">>, <<"/", "scratch", "/">> }
NerscValues == { <<>>, <<"cori">> }

\* os.environ: a mapping whose domain is the set of variables that are set.
Environments ==
  UNION { [D -> ScratchValues \cup NerscValues] : D \in SUBSET {"SCRATCH", "NERSC_HOST"} }

EnvOK(e) ==
  /\ "SCRATCH" \in DOMAIN e => e["SCRATCH"] \in ScratchValues
  /\ "NERSC_HOST" \in DOMAIN e => e["NERSC_HOST"] \in NerscValues

\* --------------------------------------------------------------- constants
Sep == "/"
InputName == "qso-input-spectra.fits"
SpecOutName == "qso-observed-spectra.fits"
ZOutName == "qso-zbest.fits"
SpecOutMoonNameSame == "qso-observed-spectra.fits"
SpecOutMoonName == "qso-moon-spectra.fits"
ZOutMoonName == "qso-zbest-moon.fits"

WaveUnit == "Angstrom"
FluxUnit == "10^-17 erg/(s*cm^2*Angstrom)"

NoneV == <<>>

\* ------------------------------------------------------------ os.path.join
\* os.path.join(a, b): b alone when b is absolute, otherwise a and b with one
\* separator between them unless a is empty or already ends with one.
JoinNoSep(a, b) == a \o <<b>>

Join(a, b) ==
  IF b = Sep THEN <<b>>
  ELSE IF a = <<>> \/ a[Len(a)] = Sep THEN a \o <<b>>
  ELSE a \o <<Sep, b>>

\* ------------------------------------------------------- template generator
\* make_templates(nmodel): the redshift drawn for row i under a given seed,
\* the wavelength grid, and a flux row that depends on the redshift.
Redshift(seed, i) == 500 * (seed + i)

WaveGrid == [j \in 1..NWave |-> 3600 + j]

TemplateFlux(z, j) == z + j

MakeMeta(seed) == [i \in 1..NModel |-> [TARGETID |-> 100 * seed + i, REDSHIFT |-> Redshift(seed, i)]]

MakeFlux(seed) == [i \in 1..NModel |-> [j \in 1..NWave |-> TemplateFlux(Redshift(seed, i), j)]]

\* ------------------------------------------------------------ astropy fits
HDU(extname, bunit, data) == [EXTNAME |-> extname, BUNIT |-> bunit, data |-> data]

Exists(f, path) == path \in DOMAIN f

WriteFile(f, path, content) ==
  [p \in DOMAIN f \cup {path} |-> IF p = path THEN content ELSE f[p]]

\* fits.append(filename, data, header): a new file when there is none (or an
\* empty one), otherwise one more HDU at the end of the existing file.
FitsAppend(f, path, data, hdr) ==
  IF ~Exists(f, path) \/ f[path] = <<>>
  THEN WriteFile(f, path, <<HDU(hdr.EXTNAME, hdr.BUNIT, data)>>)
  ELSE WriteFile(f, path, Append(f[path], HDU(hdr.EXTNAME, hdr.BUNIT, data)))

\* fits.writeto(filename, data, header, overwrite=True): the file holds the
\* one HDU afterwards, whatever it held before.
FitsWritetoNoOverwrite(f, path, data, hdr) == FitsAppend(f, path, data, hdr)

FitsWriteto(f, path, data, hdr) ==
  WriteFile(f, path, <<HDU(hdr.EXTNAME, hdr.BUNIT, data)>>)

\* ------------------------------------------------------------ command lines
W(s) == <<s>>

MoonOpts ==
  << W("--moonfrac"), W("0.9"), W("--moonalt"), W("70"),
     W("--moonsep"), W("20"), W("--airmass"), W("1.3") >>

\* 'quickspectra -i {} -o {}'.format(infile, specoutfile)
QuickspectraCmd(in, out) == << W("quickspectra"), W("-i"), in, W("-o"), out >>

\* 'quickspectra -i {} -o {} --moonfrac 0.9 ...'.format(infile, specoutfile_moon)
QuickspectraMoonCmd(in, out) == << W("quickspectra"), W("-i"), in, W("-o"), out >> \o MoonOpts

Srun ==
  << W("srun"), W("-A"), W("desi"), W("-N"), W("1"), W("-t"), W("00:10:00"),
     W("-C"), W("haswell"), W("--qos"), W("interactive") >>

MpOpt == << W("--mp"), W("32") >>

\* The rrdesi cell of the dark-time fit: the plain command, wrapped in srun
\* and given --mp 32 when NERSC_HOST is a key of os.environ.
RrdesiCmdTruthy(e, in, out) ==
  IF "NERSC_HOST" \in DOMAIN e /\ e["NERSC_HOST"] # <<>>
  THEN Srun \o << W("rrdesi"), in, W("--zbest"), out >> \o MpOpt
  ELSE << W("rrdesi"), in, W("--zbest"), out >>

RrdesiCmd(e, in, out) ==
  IF "NERSC_HOST" \in DOMAIN e
  THEN Srun \o << W("rrdesi"), in, W("--zbest"), out >> \o MpOpt
  ELSE << W("rrdesi"), in, W("--zbest"), out >>

\* The rrdesi cell of the fit with the moon up (the same lines again).
RrdesiMoonCmd(e, in, out) ==
  IF "NERSC_HOST" \in DOMAIN e
  THEN Srun \o << W("rrdesi"), in, W("--zbest"), out >> \o MpOpt
  ELSE << W("rrdesi"), in, W("--zbest"), out >>

\* ------------------------------------------------------- external programs
\* srun runs the command that follows its options.
StripSrun(cmd) ==
  IF cmd[1] = W("srun") THEN SubSeq(cmd, Len(Srun) + 1, Len(cmd)) ELSE cmd

HasFlag(argv, flag) == \E k \in 1..Len(argv) : argv[k] = W(flag)

ArgAfter(argv, flag) ==
  argv[(CHOOSE k \in 1..(Len(argv) - 1) : argv[k] = W(flag)) + 1]

HasHDU(f, path, extname) ==
  /\ Exists(f, path)
  /\ \E k \in 1..Len(f[path]) : f[path][k].EXTNAME = extname

GetHDU(f, path, extname) ==
  f[path][CHOOSE k \in 1..Len(f[path]) : f[path][k].EXTNAME = extname]

\* quickspectra reads the WAVELENGTH and FLUX extensions of its input.
ValidInput(f, path) == HasHDU(f, path, "WAVELENGTH") /\ HasHDU(f, path, "FLUX")

\* The simulated spectra: one noisy row per input row, in the input's order.
Simulate(rows, noise) ==
  [i \in 1..Len(rows) |-> [j \in 1..Len(rows[i]) |-> rows[i][j] + noise]]

SpectraFile(f, in, noise) ==
  << HDU("B_FLUX", FluxUnit, Simulate(GetHDU(f, in, "FLUX").data, noise)) >>

ValidSpectra(f, path) == HasHDU(f, path, "B_FLUX")

\* rrdesi: one best-fit row per spectrum, in the spectra's order.
FitRedshift(row) == row[1] - 1

ZbestFile(f, in) ==
  LET rows == GetHDU(f, in, "B_FLUX").data
  IN  << HDU("ZBEST", "", [i \in 1..Len(rows) |-> [Z |-> FitRedshift(rows[i])]]) >>

\* -------------------------------------------------------------- comparison
Column(table, name) == [i \in 1..Len(table) |-> table[i][name]]

\* plt.plot(x, y, '.'): one point per row position.
Points(xs, ys) == [i \in 1..Len(xs) |-> [x |-> xs[i], y |-> ys[i]]]

\* 3e5*(Z - REDSHIFT)/(1 + REDSHIFT) in km/s, as the exact fraction num/den
\* (redshifts are in units of 1/1000, which cancel).
CLight == 300000

DVNoPlusOne(zfit, ztrue) == [num |-> CLight * (zfit - ztrue), den |-> ztrue]

DV(zfit, ztrue) == [num |-> CLight * (zfit - ztrue), den |-> 1000 + ztrue]

DVColumn(zs, zt) == [i \in 1..Len(zs) |-> DV(zs[i], zt[i])]

\* ------------------------------------------------------------------- state
VARIABLES
  env,               \* os.environ of the kernel
  run,               \* which Run-All this is
  pc,                \* the cell that runs next (or that raised)
  status,            \* "running", "halted" (a cell raised) or "done"
  flux, wave, meta,  \* the templates
  simdir, infile, specoutfile, zoutfile, specoutfile_moon, zoutfile_moon,
  spectra, zbest, zbest_moon,
  plots,             \* what the plotting cells drew
  fs,                \* the files on disk: path -> list of HDUs
  dirs,              \* the directories the notebook created
  procs,             \* the external processes of this run
  prov,              \* per file: the run that wrote it, and whether with moon
  readThisRun,       \* the files a stage of this run has read
  loaded             \* per loaded table: the run that wrote the file it came from

tmpl == <<flux, wave, meta>>
paths == <<simdir, infile, specoutfile, zoutfile, specoutfile_moon, zoutfile_moon>>
tables == <<spectra, zbest, zbest_moon>>
disk == <<fs, dirs, prov>>
vars == <<env, run, pc, status, tmpl, paths, tables, plots, disk, procs, readThisRun, loaded>>

ProcNames == {"quickspectra", "rrdesi", "quickspectra_moon", "rrdesi_moon"}

Cells ==
  << "make_templates", "write_input", "quickspectra", "read_spectra", "plot_spectra",
     "rrdesi", "read_zbest", "plot_zbest", "quickspectra_moon", "rrdesi_moon",
     "read_zbest_moon", "compare" >>

CellIndex(c) == CHOOSE k \in 1..Len(Cells) : Cells[k] = c

NextCell(c) == Cells[CellIndex(c) + 1]

IdleProcs == [p \in ProcNames |-> [state |-> "idle", cmd |-> <<>>]]

NoPlots == [zfit |-> <<>>, p221 |-> <<>>, p222 |-> <<>>, p223 |-> <<>>, p224 |-> <<>>]

NotLoaded == [t \in {"spectra", "zbest", "zbest_moon"} |-> 0]

\* A fresh kernel in front of the first cell.
FreshKernel ==
  /\ pc = "make_templates"
  /\ status = "running"
  /\ flux = NoneV /\ wave = NoneV /\ meta = NoneV
  /\ simdir = NoneV /\ infile = NoneV /\ specoutfile = NoneV /\ zoutfile = NoneV
  /\ specoutfile_moon = NoneV /\ zoutfile_moon = NoneV
  /\ spectra = NoneV /\ zbest = NoneV /\ zbest_moon = NoneV
  /\ plots = NoPlots
  /\ procs = IdleProcs
  /\ readThisRun = {}
  /\ loaded = NotLoaded

Init ==
  /\ env \in { e \in Environments : EnvOK(e) }
  /\ run = 1
  /\ FreshKernel
  /\ fs = <<>>
  /\ dirs = {}
  /\ prov = <<>>

Running(c) == status = "running" /\ pc = c

Raise == status' = "halted" /\ pc' = pc

Stamp(pv, path, moon) ==
  [p \in DOMAIN pv \cup {path} |-> IF p = path THEN [run |-> run, moon |-> moon] ELSE pv[p]]

\* ------------------------------------------------------------------- cells
\* qso_maker.make_templates(nmodel=100)
MakeTemplates ==
  /\ Running("make_templates")
  /\ \E seed \in Seeds :
       /\ flux' = MakeFlux(seed)
       /\ wave' = WaveGrid
       /\ meta' = MakeMeta(seed)
  /\ pc' = NextCell(pc)
  /\ UNCHANGED <<env, run, status, paths, tables, plots, disk, procs, readThisRun, loaded>>

WaveHdr == [EXTNAME |-> "WAVELENGTH", BUNIT |-> WaveUnit]

FluxHdr == [WaveHdr EXCEPT !.EXTNAME = "FLUX", !.BUNIT = FluxUnit]

SimDir(e) == Join(Join(e["SCRATCH"], "desi"), "simspec")

\* The two fits calls of the cell, one after the other.
WriteSpectrumFile(f, path, w, fl) ==
  FitsAppend(FitsWriteto(f, path, w, WaveHdr), path, fl, FluxHdr)

\* The cell that writes the input file, when SCRATCH is not set: KeyError.
WriteInputNoScratch ==
  /\ Running("write_input")
  /\ "SCRATCH" \notin DOMAIN env
  /\ Raise
  /\ UNCHANGED <<env, run, tmpl, paths, tables, plots, disk, procs, readThisRun, loaded>>

\* The cell that writes the input file; either fits call may raise OSError.
WriteInput ==
  /\ Running("write_input")
  /\ "SCRATCH" \in DOMAIN env
  /\ simdir' = SimDir(env)
  /\ dirs' = dirs \cup {Join(env["SCRATCH"], "desi"), simdir'}
  /\ infile' = Join(simdir', InputName)
  /\ \/ /\ fs' = WriteSpectrumFile(fs, infile', wave, flux)
        /\ prov' = Stamp(prov, infile', FALSE)
        /\ pc' = NextCell(pc)
        /\ UNCHANGED status
     \/ /\ fs' = FitsWriteto(fs, infile', wave, WaveHdr)
        /\ prov' = Stamp(prov, infile', FALSE)
        /\ Raise
     \/ /\ UNCHANGED <<fs, prov>>
        /\ Raise
  /\ UNCHANGED <<env, run, tmpl, specoutfile, zoutfile, specoutfile_moon, zoutfile_moon,
                 tables, plots, procs, readThisRun, loaded>>

Start(p, cmd) == procs' = [procs EXCEPT ![p] = [state |-> "running", cmd |-> cmd]]

\* The quickspectra cell up to the launch of the process.
LaunchQuickspectra ==
  /\ Running("quickspectra")
  /\ procs["quickspectra"].state = "idle"
  /\ specoutfile' = Join(simdir, SpecOutName)
  /\ Start("quickspectra", QuickspectraCmd(infile, specoutfile'))
  /\ UNCHANGED <<env, run, pc, status, tmpl, simdir, infile, zoutfile, specoutfile_moon,
                 zoutfile_moon, tables, plots, disk, readThisRun, loaded>>

\* The rrdesi cell up to the launch of the process.
LaunchRrdesi ==
  /\ Running("rrdesi")
  /\ procs["rrdesi"].state = "idle"
  /\ zoutfile' = Join(simdir, ZOutName)
  /\ Start("rrdesi", RrdesiCmd(env, specoutfile, zoutfile'))
  /\ UNCHANGED <<env, run, pc, status, tmpl, simdir, infile, specoutfile, specoutfile_moon,
                 zoutfile_moon, tables, plots, disk, readThisRun, loaded>>

\* The quickspectra cell with the moon up, up to the launch of the process.
LaunchQuickspectraMoon ==
  /\ Running("quickspectra_moon")
  /\ procs["quickspectra_moon"].state = "idle"
  /\ specoutfile_moon' = Join(simdir, SpecOutMoonName)
  /\ Start("quickspectra_moon", QuickspectraMoonCmd(infile, specoutfile_moon'))
  /\ UNCHANGED <<env, run, pc, status, tmpl, simdir, infile, specoutfile, zoutfile,
                 zoutfile_moon, tables, plots, disk, readThisRun, loaded>>

\* The rrdesi cell with the moon up, up to the launch of the process.
LaunchRrdesiMoon ==
  /\ Running("rrdesi_moon")
  /\ procs["rrdesi_moon"].state = "idle"
  /\ zoutfile_moon' = Join(simdir, ZOutMoonName)
  /\ Start("rrdesi_moon", RrdesiMoonCmd(env, specoutfile_moon, zoutfile_moon'))
  /\ UNCHANGED <<env, run, pc, status, tmpl, simdir, infile, specoutfile, zoutfile,
                 specoutfile_moon, tables, plots, disk, readThisRun, loaded>>

\* !$cmd returns when the child process has exited, whatever its exit code.
SystemReturnsAtOnce(state) == state \in {"running", "ok", "failed"}

SystemReturns(state) == state \in {"ok", "failed"}

\* The end of a cell that ran a command: the exit code is not looked at.
CommandCellEnds ==
  /\ status = "running"
  /\ pc \in ProcNames
  /\ SystemReturns(procs[pc].state)
  /\ pc' = NextCell(pc)
  /\ UNCHANGED <<env, run, status, tmpl, paths, tables, plots, disk, procs, readThisRun, loaded>>

\* --------------------------------------------------------------- processes
Exit(p, state) == procs' = [procs EXCEPT ![p].state = state]

IsMoon(argv) == HasFlag(argv, "--moonfrac")

\* A quickspectra process succeeds: it has read -i and written -o.
SimulatorSucceeds(p) ==
  LET argv == procs[p].cmd
      in == ArgAfter(argv, "-i")
      out == ArgAfter(argv, "-o")
  IN  /\ p \in {"quickspectra", "quickspectra_moon"}
      /\ procs[p].state = "running"
      /\ ValidInput(fs, in)
      /\ \E noise \in NoiseSeeds : fs' = WriteFile(fs, out, SpectraFile(fs, in, noise))
      /\ prov' = Stamp(prov, out, IsMoon(argv))
      /\ readThisRun' = readThisRun \cup {in}
      /\ Exit(p, "ok")
      /\ UNCHANGED <<env, run, pc, status, tmpl, paths, tables, plots, dirs, loaded>>

\* An rrdesi process (under srun or not) succeeds: it has read the spectra
\* and written the --zbest file.
FitterSucceeds(p) ==
  LET argv == StripSrun(procs[p].cmd)
      in == argv[2]
      out == ArgAfter(argv, "--zbest")
  IN  /\ p \in {"rrdesi", "rrdesi_moon"}
      /\ procs[p].state = "running"
      /\ ValidSpectra(fs, in)
      /\ fs' = WriteFile(fs, out, ZbestFile(fs, in))
      /\ prov' = Stamp(prov, out, prov[in].moon)
      /\ readThisRun' = readThisRun \cup {in}
      /\ Exit(p, "ok")
      /\ UNCHANGED <<env, run, pc, status, tmpl, paths, tables, plots, dirs, loaded>>

\* The file a process was asked to write.
OutputOf(p) ==
  IF p \in {"quickspectra", "quickspectra_moon"}
  THEN ArgAfter(procs[p].cmd, "-o")
  ELSE ArgAfter(StripSrun(procs[p].cmd), "--zbest")

\* A process exits with a non-zero code (not installed, no allocation, bad
\* input, killed): it has written nothing, or it leaves a truncated output
\* file with no extension in it.
ProcessFails(p) ==
  /\ procs[p].state = "running"
  /\ Exit(p, "failed")
  /\ \/ UNCHANGED <<fs, prov>>
     \/ /\ fs' = WriteFile(fs, OutputOf(p), <<>>)
        /\ prov' = Stamp(prov, OutputOf(p), FALSE)
  /\ UNCHANGED <<env, run, pc, status, tmpl, paths, tables, plots, dirs, readThisRun, loaded>>

\* ------------------------------------------------------------ reading back
\* spectra = desispec.io.read_spectra(specoutfile)
ReadSpectra ==
  /\ Running("read_spectra")
  /\ \/ /\ ValidSpectra(fs, specoutfile)
        /\ spectra' = GetHDU(fs, specoutfile, "B_FLUX").data
        /\ loaded' = [loaded EXCEPT !["spectra"] = prov[specoutfile].run]
        /\ readThisRun' = readThisRun \cup {specoutfile}
        /\ pc' = NextCell(pc)
        /\ UNCHANGED status
     \/ /\ ~ValidSpectra(fs, specoutfile)
        /\ Raise
        /\ UNCHANGED <<spectra, loaded, readThisRun>>
  /\ UNCHANGED <<env, run, tmpl, paths, zbest, zbest_moon, plots, disk, procs>>

\* The cells that plot the first nine spectra.
PlotSpectra ==
  /\ Running("plot_spectra")
  /\ pc' = NextCell(pc)
  /\ UNCHANGED <<env, run, status, tmpl, paths, tables, plots, disk, procs, readThisRun, loaded>>

\* zbest = Table.read(zoutfile, 'ZBEST')
ReadZbest ==
  /\ Running("read_zbest")
  /\ \/ /\ HasHDU(fs, zoutfile, "ZBEST")
        /\ zbest' = GetHDU(fs, zoutfile, "ZBEST").data
        /\ loaded' = [loaded EXCEPT !["zbest"] = prov[zoutfile].run]
        /\ readThisRun' = readThisRun \cup {zoutfile}
        /\ pc' = NextCell(pc)
        /\ UNCHANGED status
     \/ /\ ~HasHDU(fs, zoutfile, "ZBEST")
        /\ Raise
        /\ UNCHANGED <<zbest, loaded, readThisRun>>
  /\ UNCHANGED <<env, run, tmpl, paths, spectra, zbest_moon, plots, disk, procs>>

\* plt.plot(meta['REDSHIFT'], zbest['Z'], '.')
PlotZbest ==
  /\ Running("plot_zbest")
  /\ plots' = [plots EXCEPT !.zfit = Points(Column(meta, "REDSHIFT"), Column(zbest, "Z"))]
  /\ pc' = NextCell(pc)
  /\ UNCHANGED <<env, run, status, tmpl, paths, tables, disk, procs, readThisRun, loaded>>

\* zbest_moon = Table.read(zoutfile_moon, 'ZBEST')
ReadZbestMoon ==
  /\ Running("read_zbest_moon")
  /\ \/ /\ HasHDU(fs, zoutfile_moon, "ZBEST")
        /\ zbest_moon' = GetHDU(fs, zoutfile_moon, "ZBEST").data
        /\ loaded' = [loaded EXCEPT !["zbest_moon"] = prov[zoutfile_moon].run]
        /\ readThisRun' = readThisRun \cup {zoutfile_moon}
        /\ pc' = NextCell(pc)
        /\ UNCHANGED status
     \/ /\ ~HasHDU(fs, zoutfile_moon, "ZBEST")
        /\ Raise
        /\ UNCHANGED <<zbest_moon, loaded, readThisRun>>
  /\ UNCHANGED <<env, run, tmpl, paths, spectra, zbest, plots, disk, procs>>

\* The moon table that subplots 222 and 224 of the comparison use.
MoonTableSwapped(nomoon, moon) == nomoon

MoonTable(nomoon, moon) == moon

\* The comparison cell: four subplots, the last cell of the pipeline.
Compare ==
  LET zt == Column(meta, "REDSHIFT")
      zn == Column(zbest, "Z")
      zm == Column(MoonTable(zbest, zbest_moon), "Z")
  IN  /\ Running("compare")
      /\ plots' = [plots EXCEPT !.p221 = Points(zt, zn),
                                !.p222 = Points(zt, zm),
                                !.p223 = Points(zt, DVColumn(zn, zt)),
                                !.p224 = Points(zt, DVColumn(zm, zt))]
      /\ status' = "done"
      /\ UNCHANGED <<env, run, pc, tmpl, paths, tables, disk, procs, readThisRun, loaded>>

\* Restart & Run All: a fresh kernel over the same scratch directory.
StartRun ==
  /\ status \in {"halted", "done"}
  /\ run < MaxRuns
  /\ run' = run + 1
  /\ pc' = "make_templates"
  /\ status' = "running"
  /\ flux' = NoneV /\ wave' = NoneV /\ meta' = NoneV
  /\ simdir' = NoneV /\ infile' = NoneV /\ specoutfile' = NoneV /\ zoutfile' = NoneV
  /\ specoutfile_moon' = NoneV /\ zoutfile_moon' = NoneV
  /\ spectra' = NoneV /\ zbest' = NoneV /\ zbest_moon' = NoneV
  /\ plots' = NoPlots
  /\ procs' = IdleProcs
  /\ readThisRun' = {}
  /\ loaded' = NotLoaded
  /\ UNCHANGED <<env, disk>>

Next ==
  \/ MakeTemplates
  \/ WriteInputNoScratch
  \/ WriteInput
  \/ LaunchQuickspectra
  \/ LaunchRrdesi
  \/ LaunchQuickspectraMoon
  \/ LaunchRrdesiMoon
  \/ CommandCellEnds
  \/ \E p \in ProcNames : SimulatorSucceeds(p)
  \/ \E p \in ProcNames : FitterSucceeds(p)
  \/ \E p \in ProcNames : ProcessFails(p)
  \/ ReadSpectra
  \/ PlotSpectra
  \/ ReadZbest
  \/ PlotZbest
  \/ ReadZbestMoon
  \/ Compare
  \/ StartRun

Spec == Init /\ [][Next]_vars

\* The writer cell alone, on any wavelength grid and flux table: the grid's
\* length and the table's column count are drawn independently.
GridOfLen(n) == [j \in 1..n |-> 3600 + j]

TableOfShape(seed, cols) ==
  [i \in 1..NModel |-> [j \in 1..cols |-> TemplateFlux(Redshift(seed, i), j)]]

InitWriter ==
  /\ env \in { e \in Environments : EnvOK(e) /\ "SCRATCH" \in DOMAIN e }
  /\ run = 1
  /\ pc = "write_input"
  /\ status = "running"
  /\ \E n \in 1..(NWave + 1) : wave = GridOfLen(n)
  /\ \E seed \in Seeds, cols \in 1..(NWave + 1) :
       /\ flux = TableOfShape(seed, cols)
       /\ meta = MakeMeta(seed)
  /\ simdir = NoneV /\ infile = NoneV /\ specoutfile = NoneV /\ zoutfile = NoneV
  /\ specoutfile_moon = NoneV /\ zoutfile_moon = NoneV
  /\ spectra = NoneV /\ zbest = NoneV /\ zbest_moon = NoneV
  /\ plots = NoPlots
  /\ procs = IdleProcs
  /\ readThisRun = {}
  /\ loaded = NotLoaded
  /\ fs = <<>>
  /\ dirs = {}
  /\ prov = <<>>

NextWriter == WriteInput

SpecWriter == InitWriter /\ [][NextWriter]_vars

\* ------------------------------------------------------------------ claims
Exited(p) == procs[p].state \in {"ok", "failed"}

Launched(p) == procs[p].state # "idle"

Past(c) == CellIndex(pc) > CellIndex(c)

\* C1: if a quickspectra or rrdesi process exits with a non-zero code, the
\* run halts at that cell: the notebook never moves on to a later cell.
C1_FailureHaltsRun ==
  \A p \in ProcNames : procs[p].state = "failed" => pc = p

\* C2: when the fitter of this run exited non-zero, a results table that is
\* loaded from the results-file path was not left behind by an earlier run.
C2_NoStaleResults ==
  /\ procs["rrdesi"].state = "failed" /\ loaded["zbest"] # 0 => loaded["zbest"] = run
  /\ procs["rrdesi_moon"].state = "failed" /\ loaded["zbest_moon"] # 0
       => loaded["zbest_moon"] = run

\* C3: stages run one after another.  While a process runs the notebook
\* waits in the cell that launched it; the simulator is launched only once
\* the input file holds the WAVELENGTH and the FLUX section; a process is
\* launched, and a cell after it runs, only once every earlier process has
\* exited; a table is loaded only once its fitter has exited; and a process
\* that exited with code 0 has left its whole output file on disk.
C3_StagesSequential ==
  /\ \A p \in ProcNames : procs[p].state = "running" => status = "running" /\ pc = p
  /\ Launched("quickspectra") =>
       /\ Exists(fs, infile)
       /\ Len(fs[infile]) = 2
       /\ fs[infile][1].EXTNAME = "WAVELENGTH"
       /\ fs[infile][2].EXTNAME = "FLUX"
  /\ Launched("rrdesi") => Exited("quickspectra")
  /\ Launched("quickspectra_moon") => Exited("rrdesi")
  /\ Launched("rrdesi_moon") => Exited("quickspectra_moon")
  /\ \A p \in ProcNames : Past(p) => Exited(p)
  /\ loaded["spectra"] # 0 => Exited("quickspectra")
  /\ loaded["zbest"] # 0 => Exited("rrdesi")
  /\ loaded["zbest_moon"] # 0 => Exited("rrdesi_moon")
  /\ procs["quickspectra"].state = "ok" =>
       ValidSpectra(fs, specoutfile) /\ prov[specoutfile].run = run
  /\ procs["rrdesi"].state = "ok" =>
       HasHDU(fs, zoutfile, "ZBEST") /\ prov[zoutfile].run = run
  /\ procs["quickspectra_moon"].state = "ok" =>
       ValidSpectra(fs, specoutfile_moon) /\ prov[specoutfile_moon].run = run
  /\ procs["rrdesi_moon"].state = "ok" =>
       HasHDU(fs, zoutfile_moon, "ZBEST") /\ prov[zoutfile_moon].run = run

\* A run under the batch wrapper in which both fits ran and both tables
\* were read back.
C3_Witness ==
  /\ "NERSC_HOST" \in DOMAIN env
  /\ status = "done"
  /\ loaded["zbest"] = run
  /\ loaded["zbest_moon"] = run

\* C4: after the write cell the input file holds exactly two sections, the
\* WAVELENGTH section with the grid and its unit and then the FLUX section
\* with the table and its unit, whatever the file held before.
C4_WriterOverwrites ==
  Past("write_input") =>
    fs[infile] = << [EXTNAME |-> "WAVELENGTH", BUNIT |-> "Angstrom", data |-> wave] >>
                 \o << [EXTNAME |-> "FLUX", BUNIT |-> "10^-17 erg/(s*cm^2*Angstrom)",
                        data |-> flux] >>

\* The write cell has run again over the complete input file of an earlier
\* run (one whose simulator went on to write its spectra).
C4_Witness ==
  /\ run > 1
  /\ Running("quickspectra")
  /\ \E p \in DOMAIN prov : p # infile /\ prov[p].run < run

Wrapped(cmd) == cmd[1] = W("srun")

FitCommandAsClaimed(cmd, in, out) ==
  LET present == "NERSC_HOST" \in DOMAIN env
      core == IF present THEN SubSeq(cmd, Len(cmd) - 5, Len(cmd) - 2) ELSE cmd
  IN  /\ Wrapped(cmd) <=> present
      /\ HasFlag(cmd, "--mp") <=> present
      /\ present => SubSeq(cmd, Len(cmd) - 1, Len(cmd)) = << W("--mp"), W("32") >>
      /\ present => SubSeq(cmd, 1, Len(cmd) - 6) = Srun
      /\ core = << W("rrdesi"), in, W("--zbest"), out >>

\* C6: the fit command is rrdesi <input> --zbest <output>; it is prefixed by
\* the srun wrapper exactly when NERSC_HOST is in the environment, whatever
\* its value, and carries --mp 32 exactly then; both fits follow this rule.
C6_FitCommand ==
  /\ Launched("rrdesi") =>
       FitCommandAsClaimed(procs["rrdesi"].cmd, specoutfile, zoutfile)
  /\ Launched("rrdesi_moon") =>
       FitCommandAsClaimed(procs["rrdesi_moon"].cmd, specoutfile_moon, zoutfile_moon)

\* Both fits were launched with NERSC_HOST set to the empty string.
C6_Witness ==
  /\ "NERSC_HOST" \in DOMAIN env
  /\ env["NERSC_HOST"] = <<>>
  /\ Launched("rrdesi")
  /\ Launched("rrdesi_moon")

ZFile(path) == Column(GetHDU(fs, path, "ZBEST").data, "Z")

\* C7 as written: dv = c (z_fit - z_true) / (1 + z_true) with c = 299792.458
\* km/s, and about 149.85 km/s for z_true = 1.0 and z_fit = 1.001.
C7_ExactSpeedOfLight ==
  status = "done" =>
    \A i \in 1..Len(meta) :
      LET zt == meta[i].REDSHIFT
          zf == ZFile(zoutfile)[i]
          dv == plots.p223[i].y
      IN  /\ dv.den = 1000 + zt
          /\ 1000 * dv.num = 299792458 * (zf - zt)
          /\ zt = 1000 /\ zf = 1001 =>
               /\ 1000 * dv.num - 149850 * dv.den <= 5 * dv.den
               /\ 149850 * dv.den - 1000 * dv.num <= 5 * dv.den

\* C7, amended: dv = 3e5 (z_fit - z_true) / (1 + z_true) km/s for the rows of
\* the no-moon and of the moon results alike, which is 150 km/s for
\* z_true = 1.0 and z_fit = 1.001.
C7_VelocityOffset ==
  status = "done" =>
    \A i \in 1..Len(meta) :
      LET zt == meta[i].REDSHIFT
          zf == ZFile(zoutfile)[i]
          zm == ZFile(zoutfile_moon)[i]
      IN  /\ plots.p223[i].y = [num |-> 300000 * (zf - zt), den |-> 1000 + zt]
          /\ plots.p224[i].y = [num |-> 300000 * (zm - zt), den |-> 1000 + zt]
          /\ zt = 1000 /\ zf = 1001 => plots.p223[i].y.num = 150 * plots.p223[i].y.den
          /\ zt = 1000 /\ zm = 1001 => plots.p224[i].y.num = 150 * plots.p224[i].y.den

\* The comparison has run on an object of true redshift 1.0 fitted at 1.001.
C7_Witness ==
  /\ status = "done"
  /\ \E i \in 1..Len(meta) : meta[i].REDSHIFT = 1000 /\ zbest[i].Z = 1001

PathVars ==
  << infile, specoutfile, zoutfile, specoutfile_moon, zoutfile_moon >>

AssignedPaths == { k \in 1..Len(PathVars) : PathVars[k] # NoneV }

PathsDistinct ==
  \A j, k \in AssignedPaths : j # k => PathVars[j] # PathVars[k]

SimulationsShareInput ==
  Launched("quickspectra_moon") =>
    /\ ArgAfter(procs["quickspectra_moon"].cmd, "-i") = infile
    /\ ArgAfter(procs["quickspectra"].cmd, "-i") = infile
    /\ ArgAfter(procs["quickspectra_moon"].cmd, "-o")
         # ArgAfter(procs["quickspectra"].cmd, "-o")

ReadFilesKept ==
  \A p \in readThisRun : Exists(fs', p) /\ fs'[p] = fs[p] /\ prov'[p] = prov[p]

\* C8: within a run the five paths are pairwise different, both simulations
\* read the one input file and write different files, and no step writes a
\* file that a stage of the run has already read.
C8_OutputsNeverRewritten ==
  /\ [](PathsDistinct /\ SimulationsShareInput)
  /\ [][ReadFilesKept]_vars

\* A complete run: every stage has read its input and written its output.
C8_Witness ==
  /\ status = "done"
  /\ readThisRun = { infile, specoutfile, zoutfile, specoutfile_moon, zoutfile_moon }
  /\ \A t \in DOMAIN loaded : loaded[t] = run

\* C9: the comparison pairs row i of a results table with row i of the
\* metadata: every subplot has one point per metadata row, whose x is the
\* true redshift of that row and whose y comes from row i of the no-moon
\* results (subplots 221, 223) or of the results of the fit on the moon
\* simulation (222, 224), the tables having as many rows as the metadata.
C9_RowAlignedComparison ==
  status = "done" =>
    LET zn == ZFile(zoutfile)
        zm == ZFile(zoutfile_moon)
    IN  /\ Len(zn) = Len(meta) /\ Len(zm) = Len(meta)
        /\ ~prov[zoutfile].moon
        /\ prov[zoutfile_moon].moon
        /\ \A q \in {"p221", "p222", "p223", "p224"} : Len(plots[q]) = Len(meta)
        /\ \A i \in 1..Len(meta) :
             /\ \A q \in {"p221", "p222", "p223", "p224"} :
                  plots[q][i].x = meta[i].REDSHIFT
             /\ plots.p221[i].y = zn[i]
             /\ plots.p222[i].y = zm[i]
             /\ plots.p223[i].y.num = CLight * (zn[i] - meta[i].REDSHIFT)
             /\ plots.p224[i].y.num = CLight * (zm[i] - meta[i].REDSHIFT)

\* The comparison has run on two fits that disagree on some row.
C9_Witness ==
  /\ status = "done"
  /\ \E i \in 1..Len(meta) : zbest[i].Z # zbest_moon[i].Z

\* The directory part of a path, and a directory name without its final
\* separator.
Dirname(path) == SubSeq(path, 1, Len(path) - 2)

NoTrailingSep(d) == IF d[Len(d)] = Sep THEN SubSeq(d, 1, Len(d) - 1) ELSE d

FileNames == {InputName, SpecOutName, ZOutName, SpecOutMoonName, ZOutMoonName}

RequestedOutputs ==
  { ArgAfter(procs[p].cmd, "-o") : p \in { q \in {"quickspectra", "quickspectra_moon"} : Launched(q) } }
  \cup
  { ArgAfter(procs[p].cmd, "--zbest") : p \in { q \in {"rrdesi", "rrdesi_moon"} : Launched(q) } }

\* C10: every file written, or named as a process's output, is a file of
\* <SCRATCH>/desi/simspec; with SCRATCH unset the run raises in the write
\* cell and no directory, file or process ever comes into being.
C10_ScratchDirectory ==
  /\ "SCRATCH" \notin DOMAIN env =>
       /\ fs = <<>>
       /\ dirs = {}
       /\ \A p \in ProcNames : ~Launched(p)
       /\ pc \in {"make_templates", "write_input"}
  /\ "SCRATCH" \in DOMAIN env =>
       \A path \in DOMAIN fs \cup RequestedOutputs :
         /\ Dirname(path) = NoTrailingSep(env["SCRATCH"]) \o << "/", "desi", "/", "simspec" >>
         /\ path[Len(path) - 1] = "/"
         /\ path[Len(path)] \in FileNames

\* With SCRATCH unset the run has stopped in the write cell.
C10_Witness ==
  /\ "SCRATCH" \notin DOMAIN env
  /\ status = "halted"
  /\ pc = "write_input"

====
